---- MODULE Spec2Model ----
(***************************************************************************)
(* The I2C master transaction engine of tm4c-hal (src/tm4c-hal/src/i2c.rs): *)
(* the i2c_busy_wait! macro and I2c::transaction of the i2c_hal! macro.     *)
(*                                                                         *)
(* One call of transaction(addr, operations) is modelled.  The peripheral  *)
(* is the environment: every read of the status register MCS returns an    *)
(* arbitrary snapshot, and the call advances from one status read to the   *)
(* next.  Every register access of the call is appended to `trace`.        *)
(***************************************************************************)
EXTENDS Integers, Sequences, FiniteSets, TLC

\* ------------------------------------------------------------------ bounds

\* Largest number of operations in one transaction.
MaxOps == 3
\* Largest length of one operation's buffer.
MaxLen == 2
\* Largest number of bytes of one transaction.
MaxBytes == 4
\* Largest length of a slice given to an SPI call.
MaxSpiWords == 2

\* ------------------------------------------------------- program constants

\* cortex_m::asm::delay(8)
SettleCycles == 8
\* (1_000 >> 4) as u8
ClkTimeoutCount == 62
\* The dummy word sent to clock a word in: w.data().bits(0xFF).
DummyWord == 255

\* ------------------------------------------------------------------ inputs

\* Target addresses (SevenBitAddress is a u8).
Addrs == {80, 42}
\* First byte of the caller's outgoing data; the k-th byte written in a call is
\* TxBase + k, so that every outgoing byte of a call is different.
TxBase == 16
\* First byte shifted in from the target; the k-th byte received is RxBase + k.
RxBase == 160
\* Content of a Read buffer before the call.
BufInit == 0

Kinds == {"Write", "Read"}

\* A status snapshot: the fields of MCS the macro reads, and DATACK, the flag
\* its commented-out test names.
Snapshots ==
  [busy : BOOLEAN, error : BOOLEAN, arblst : BOOLEAN, adrack : BOOLEAN,
   datack : BOOLEAN, clkto : BOOLEAN, busbsy : BOOLEAN]

\* ----------------------------------------------------------------- helpers

RECURSIVE SumTo(_, _)
\* lens[1] + ... + lens[n]
SumTo(lens, n) == IF n = 0 THEN 0 ELSE lens[n] + SumTo(lens, n - 1)

\* The operation list of a given shape: kinds and lengths are free; the bytes of
\* a Write are TxBase + (their position among all bytes of the call), a Read
\* buffer holds BufInit.
MkOps(kinds, lens) ==
  [i \in 1..Len(kinds) |->
     [kind |-> kinds[i],
      data |-> [j \in 1..lens[i] |->
                  IF kinds[i] = "Write"
                  THEN (TxBase + SumTo(lens, i - 1) + j - 1) % 256
                  ELSE BufInit]]]

\* The transactions of at most MaxOps operations of at most MaxLen bytes each
\* (zero-length operations included) and at most MaxBytes bytes in all.
OpLists ==
  UNION {{MkOps(kinds, lens) :
            kinds \in [1..n -> Kinds],
            lens \in {l \in [1..n -> 0..MaxLen] : SumTo(l, n) <= MaxBytes}}
         : n \in 0..MaxOps}

\* A register access.  reg is the register, val the value written or read,
\* bits the command bits of a write to MCS.
Ev(reg, val, bits) == [reg |-> reg, val |-> val, bits |-> bits]

\* msa.write(|w| w.sa().bits(addr).rs().<bit>): SA is bits 7:1, R/S is bit 0.
MsaWrite(a, rs) == Ev("msa", 2 * (a % 128) + rs, {})
\* mdr.write(|w| w.data().bits(b))
MdrWrite(b) == Ev("mdr_w", b, {})
\* mdr.read().data().bits()
MdrRead(b) == Ev("mdr_r", b, {})
\* mcs.write(|w| w.<bits>.set_bit()...)
McsWrite(bits) == Ev("mcs", 0, bits)
\* cortex_m::asm::delay(8)
Delay == Ev("delay", SettleCycles, {})
\* mclkocnt.write(|w| w.cntl().bits((1_000 >> 4) as u8))
ClkWrite == Ev("mclkocnt", ClkTimeoutCount, {})

\* The k-th byte (from 0) the target shifts into the data register.
RxByte(k) == (RxBase + k) % 256

\* ------------------------------------------------------------------- state

VARIABLES
  spi,         \* the SPI bus and the call running on it, a record (see SpiIdle)
  sysclk,      \* clocks.sysclk.0 given to new, in Hz
  freq,        \* freq.into().0 given to new, in Hz
  mfe,         \* the mfe bit of the mcr register
  mtpr,        \* the tpr field of the mtpr register
  addr,        \* argument addr
  operations,  \* argument operations; the Read buffers are stored into
  op_i,        \* local op_i
  byte_i,      \* local byte_i
  start,       \* local start
  pc,          \* the wait the call is in, "call" before it, "done" after it
  phase,       \* position inside i2c_busy_wait!: "setup", "poll", "poll2"
  mcs,         \* << >>, or <<s>> for the last snapshot bound to `mcs`
  trace,       \* register accesses of the call so far, in order
  result,      \* "none" while running, then the value returned
  stored,      \* buffer positions <<op_i, byte_i>> stored so far, in order
  rxCount,     \* bytes taken from the data register so far
  retSite      \* <<pc, phase>> of the return, << >> before it

vars ==
  <<spi, sysclk, freq, mfe, mtpr, addr, operations, op_i, byte_i, start, pc, phase, mcs, trace,
    result, stored, rxCount, retSite>>

\* The variables of the I2C master.
i2cVars ==
  <<sysclk, freq, mfe, mtpr, addr, operations, op_i, byte_i, start, pc, phase,
    mcs, trace, result, stored, rxCount, retSite>>

\* The SPI bus with no call on it.  op is the SpiBus method called, wr the
\* slice it sends from, rd the slice it stores into, k the number of words
\* done, at the place in the call ("call", "tnf" and "rne" for the two
\* busy_wait! loops of a word, "done"), sr the last value read from the
\* status register (<< >> before the first read), seen whether a read of the
\* busy_wait! under way showed its flag set, log the accesses to the data
\* register in order.
SpiIdle ==
  [op |-> "none", wr |-> << >>, rd |-> << >>, k |-> 0, at |-> "done",
   sr |-> << >>, seen |-> FALSE, log |-> << >>]

\* ------------------------------------------------------- i2c_busy_wait!

\* Variant of Classify: the causes tested in priority order without the error
\* flag in front of arblst.
MutFlatClassify(s) ==
  IF s.clkto THEN "Other"
  ELSE IF s.arblst THEN "ArbitrationLoss"
  ELSE IF s.error /\ s.adrack THEN "NoAckAddress"
  ELSE IF s.error /\ s.datack THEN "NoAckData"
  ELSE "none"
\* Variant of Classify: adrack tested before arblst.
MutNackFirstClassify(s) ==
  IF s.clkto THEN "Other"
  ELSE IF s.error
       THEN IF s.adrack THEN "NoAckAddress"
            ELSE IF s.arblst THEN "ArbitrationLoss"
            ELSE "NoAckData"
       ELSE "none"
\* The classification of a snapshot read with busy clear (the if/else chain
\* after each polling loop).  "none": no error, the macro goes on.
Classify(s) ==
  IF s.clkto THEN "Other"
  ELSE IF s.error
       THEN IF s.arblst THEN "ArbitrationLoss"
            ELSE IF s.adrack THEN "NoAckAddress"
            ELSE "NoAckData"
       ELSE "none"

IsNoAck(r) == r \in {"NoAckAddress", "NoAckData"}

\* Variant of ErrorEvents: no STOP on any error.
MutNoStopErrorEvents(r) == << >>
\* Variant of ErrorEvents: the STOP only on an address NACK.
MutStopAddressOnly(r) == IF r = "NoAckAddress" THEN <<McsWrite({"stop"})>> ELSE << >>
\* Variant of ErrorEvents: after the STOP of a NoAcknowledge the byte is tried again.
MutErrorRestart(r) ==
  IF IsNoAck(r) THEN <<McsWrite({"stop"}), McsWrite({"start", "run"})>> ELSE << >>
\* The register writes of the error branch: mcs.write(|w| w.stop().set_bit())
\* on the two NoAcknowledge outcomes, nothing on the others.
ErrorEvents(r) == IF IsNoAck(r) THEN <<McsWrite({"stop"})>> ELSE << >>

\* Variant of WaitHasCondition: only the wait that ends the general path.
MutConditionOnlyAtEnd(p) == p = "idle_wait"
\* The waits called with (busbsy, bit_is_clear): the one before the first
\* START and the one that ends the general path.
WaitHasCondition(p) == p \in {"pre_start", "idle_wait"}

\* mcs.$field().$op() of the optional condition.
CondMet(p, s) == WaitHasCondition(p) => ~s.busbsy

\* A snapshot that lets the macro return Ok(()).
Passes(p, s) == ~s.busy /\ Classify(s) = "none" /\ CondMet(p, s)

\* ---------------------------------------------------------- transaction

\* Variant of IsEmptyOp: only a Write is tested.
MutIsEmptyWriteOnly(op) == op.kind = "Write" /\ Len(op.data) = 0
\* bytes.is_empty()
IsEmptyOp(op) == Len(op.data) = 0

\* let op_change = !one_op && discriminant(ops[op_i]) != discriminant(ops[op_i + 1])
OpChangeFirst(ops) == Len(ops) # 1 /\ ops[1].kind # ops[2].kind

\* Variant of FirstSetup: the first byte of a Write is not loaded.
MutFirstSetupNoLoad(ops, a) ==
  IF ops[1].kind = "Write" THEN <<MsaWrite(a, 0)>> ELSE <<MsaWrite(a, 1)>>
\* The register writes of the first operation before its first wait.
FirstSetup(ops, a) ==
  IF ops[1].kind = "Write"
  THEN <<MsaWrite(a, 0), MdrWrite(ops[1].data[1])>>
  ELSE <<MsaWrite(a, 1)>>

\* The first operation is the whole transaction and has one byte.
SingleByte(ops) == Len(ops) = 1 /\ Len(ops[1].data) = 1

\* Variant of FirstCommand: without the "NACK on op_change" branch.
MutFirstAlwaysAck(ops) ==
  IF SingleByte(ops) THEN {"start", "run", "stop"}
  ELSE IF ops[1].kind = "Write" THEN {"start", "run"}
  ELSE {"start", "run", "ack"}
\* Variant of FirstCommand: without the special case of a single byte.
MutFirstNoSingleCase(ops) ==
  IF ops[1].kind = "Write" THEN {"start", "run"}
  ELSE IF OpChangeFirst(ops) /\ Len(ops[1].data) = 1 THEN {"start", "run"}
  ELSE {"start", "run", "ack"}
\* The command written after the wait for the bus to be free.
FirstCommand(ops) ==
  IF ops[1].kind = "Write"
  THEN IF SingleByte(ops) THEN {"start", "run", "stop"} ELSE {"start", "run"}
  ELSE IF SingleByte(ops) THEN {"start", "run", "stop"}
       ELSE IF OpChangeFirst(ops) /\ Len(ops[1].data) = 1 THEN {"start", "run"}
       ELSE {"start", "run", "ack"}

\* The loop's op_change, for the operation at index i (from 0).
LoopOpChange(ops, i) ==
  IF i = Len(ops) - 1 THEN FALSE ELSE ops[i + 1].kind # ops[i + 2].kind

\* Variant of LoopBreak: the break as soon as the last operation is reached.
MutLoopBreakEarly(ops, i, j) == i = Len(ops) - 1
\* Variant of LoopBreak: byte_i compared with op_len instead of op_len - 1.
MutLoopBreakOffByOne(ops, i, j) == i = Len(ops) - 1 /\ j = Len(ops[i + 1].data)
\* The loop's break: the last byte of the last operation.
LoopBreak(ops, i, j) == i = Len(ops) - 1 /\ j = Len(ops[i + 1].data) - 1

\* Variant of Advance: start = true at every new operation.
MutAdvanceAlwaysStart(len, i, j, chg) ==
  IF j + 1 = len THEN <<i + 1, 0, TRUE>> ELSE <<i, j + 1, FALSE>>
\* "Move to next byte" and "Move to next operation": the new <<op_i, byte_i, start>>.
Advance(len, i, j, chg) ==
  IF j + 1 = len THEN <<i + 1, 0, chg>> ELSE <<i, j + 1, FALSE>>

\* Variant of LoopEvents: a repeated START without the write of the address
\* register.
MutLoopKeepAddress(ops, a, i, j, st) ==
  LET op  == ops[i + 1]
      chg == LoopOpChange(ops, i)
  IN IF op.kind = "Write"
     THEN IF st
          THEN <<MdrWrite(op.data[j + 1]), McsWrite({"start", "run"})>>
          ELSE <<MdrWrite(op.data[j + 1]), McsWrite({"run"})>>
     ELSE IF st
          THEN <<McsWrite(IF chg /\ j = Len(op.data) - 1
                          THEN {"start", "run"} ELSE {"start", "run", "ack"})>>
          ELSE <<McsWrite(IF chg /\ j = Len(op.data) - 1
                          THEN {"run"} ELSE {"run", "ack"})>>
\* Variant of LoopEvents: a continued Write loads its byte after the command.
MutLoopCommandFirst(ops, a, i, j, st) ==
  LET op  == ops[i + 1]
      chg == LoopOpChange(ops, i)
  IN IF op.kind = "Write"
     THEN IF st
          THEN <<MsaWrite(a, 0), MdrWrite(op.data[j + 1]), McsWrite({"start", "run"})>>
          ELSE <<McsWrite({"run"}), MdrWrite(op.data[j + 1])>>
     ELSE IF st
          THEN <<MsaWrite(a, 1),
                 McsWrite(IF chg /\ j = Len(op.data) - 1
                          THEN {"start", "run"} ELSE {"start", "run", "ack"})>>
          ELSE <<McsWrite(IF chg /\ j = Len(op.data) - 1
                          THEN {"run"} ELSE {"run", "ack"})>>
\* The register writes of one loop iteration, before its wait.
LoopEvents(ops, a, i, j, st) ==
  LET op  == ops[i + 1]
      chg == LoopOpChange(ops, i)
  IN IF op.kind = "Write"
     THEN IF st
          THEN <<MsaWrite(a, 0), MdrWrite(op.data[j + 1]), McsWrite({"start", "run"})>>
          ELSE <<MdrWrite(op.data[j + 1]), McsWrite({"run"})>>
     ELSE IF st
          THEN <<MsaWrite(a, 1),
                 McsWrite(IF chg /\ j = Len(op.data) - 1
                          THEN {"start", "run"} ELSE {"start", "run", "ack"})>>
          ELSE <<McsWrite(IF chg /\ j = Len(op.data) - 1
                          THEN {"run"} ELSE {"run", "ack"})>>

\* Variant of FinalEvents: the final byte of a Write after a direction change
\* without STOP.
MutFinalStartNoStop(ops, a, i, j, st) ==
  LET op == ops[i + 1]
  IN IF op.kind = "Write"
     THEN IF st
          THEN <<MsaWrite(a, 0), MdrWrite(op.data[j + 1]), McsWrite({"start", "run"})>>
          ELSE <<MdrWrite(op.data[j + 1]), McsWrite({"run", "stop"})>>
     ELSE IF st
          THEN <<MsaWrite(a, 1), McsWrite({"start", "run", "stop"})>>
          ELSE <<McsWrite({"run", "stop"})>>
\* Variant of FinalEvents: the final byte of a continued Write without STOP.
MutFinalWriteNoStop(ops, a, i, j, st) ==
  LET op == ops[i + 1]
  IN IF op.kind = "Write"
     THEN IF st
          THEN <<MsaWrite(a, 0), MdrWrite(op.data[j + 1]),
                 McsWrite({"start", "run", "stop"})>>
          ELSE <<MdrWrite(op.data[j + 1]), McsWrite({"run"})>>
     ELSE IF st
          THEN <<MsaWrite(a, 1), McsWrite({"start", "run", "stop"})>>
          ELSE <<McsWrite({"run", "stop"})>>
\* Variant of FinalEvents: the final byte of a continued Read with ACK.
MutFinalReadAck(ops, a, i, j, st) ==
  LET op == ops[i + 1]
  IN IF op.kind = "Write"
     THEN IF st
          THEN <<MsaWrite(a, 0), MdrWrite(op.data[j + 1]),
                 McsWrite({"start", "run", "stop"})>>
          ELSE <<MdrWrite(op.data[j + 1]), McsWrite({"run", "stop"})>>
     ELSE IF st
          THEN <<MsaWrite(a, 1), McsWrite({"start", "run", "stop"})>>
          ELSE <<McsWrite({"run", "stop", "ack"})>>
\* The register writes of "Final operation", before its wait.
FinalEvents(ops, a, i, j, st) ==
  LET op == ops[i + 1]
  IN IF op.kind = "Write"
     THEN IF st
          THEN <<MsaWrite(a, 0), MdrWrite(op.data[j + 1]),
                 McsWrite({"start", "run", "stop"})>>
          ELSE <<MdrWrite(op.data[j + 1]), McsWrite({"run", "stop"})>>
     ELSE IF st
          THEN <<MsaWrite(a, 1), McsWrite({"start", "run", "stop"})>>
          ELSE <<McsWrite({"run", "stop"})>>

\* Variant of StoreByte: the byte always goes to buffer[0].
MutStoreAtZero(ops, i, j, b) == [ops EXCEPT ![i + 1].data[1] = b]
\* buffer[j] = mdr.read().data().bits() for the operation at index i.
StoreByte(ops, i, j, b) == [ops EXCEPT ![i + 1].data[j + 1] = b]

\* ------------------------------------------------------------ the call

\* The quotient of new: clocks.sysclk.0 / (2 * 10 * freq), a division of u32
\* that drops the remainder.
TprQuotient(c, f) == c \div (2 * 10 * f)

\* let tpr = ((clocks.sysclk.0 / (2 * 10 * freq)) - 1) as u8: the cast keeps
\* the low 8 bits.  A quotient of 0 wraps, where the build lets it, to
\* 2^32 - 1, whose low 8 bits are those of -1 modulo 256.
Tpr(c, f) == (TprQuotient(c, f) - 1) % 256

\* The system clocks and bus frequencies new is called with.  Some pairs have
\* freq above sysclk / 20, where the quotient is 0.
SysClks ==
  {16000000, 20000000, 25000000, 40000000, 50000000, 66666666, 80000000,
   100000000, 120000000}
Freqs == {1000, 10000, 100000, 400000, 1000000, 3400000, 5000000}

\* Before new: the peripheral out of reset, no handle yet.
InitNew ==
  /\ sysclk \in SysClks
  /\ freq \in Freqs
  /\ mfe = FALSE
  /\ mtpr = 1
  /\ spi = SpiIdle
  /\ addr \in {CHOOSE a \in Addrs : TRUE}
  /\ operations = << >>
  /\ op_i = 0
  /\ byte_i = 0
  /\ start = TRUE
  /\ pc = "new"
  /\ phase = "none"
  /\ mcs = << >>
  /\ trace = << >>
  /\ result = "none"
  /\ stored = << >>
  /\ rxCount = 0
  /\ retSite = << >>

\* new: mcr is written with mfe set, then mtpr with tpr.  The subtraction of
\* 1 from a quotient of 0 overflows: the build either panics there or wraps.
New ==
  /\ pc = "new"
  /\ mfe' = TRUE
  /\ \/ /\ mtpr' = Tpr(sysclk, freq)
        /\ pc' = "call"
        /\ UNCHANGED <<result, retSite>>
     \/ /\ TprQuotient(sysclk, freq) = 0
        /\ mtpr' = mtpr
        /\ result' = "panic"
        /\ pc' = "done"
        /\ retSite' = <<pc, phase>>
  /\ UNCHANGED <<spi, sysclk, freq, addr, operations, op_i, byte_i, start, phase,
                 mcs, trace, stored, rxCount>>

NextNew == New

SpecNew == InitNew /\ [][NextNew]_vars

\* The state after new, at a call of transaction.
Init ==
  /\ sysclk = 16000000
  /\ freq = 100000
  /\ mfe = TRUE
  /\ mtpr = Tpr(sysclk, freq)
  /\ spi = SpiIdle
  /\ addr \in Addrs
  /\ operations \in OpLists
  /\ op_i = 0
  /\ byte_i = 0
  /\ start = TRUE
  /\ pc = "call"
  /\ phase = "none"
  /\ mcs = << >>
  /\ trace = << >>
  /\ result = "none"
  /\ stored = << >>
  /\ rxCount = 0
  /\ retSite = << >>

\* return with value r
Return(r) ==
  /\ result' = r
  /\ pc' = "done"
  /\ phase' = "none"
  /\ retSite' = <<pc, phase>>

\* Variant of ReturnEmpty: the empty list is rejected like an empty operation.
MutReturnEmptyAsError ==
  /\ pc = "call"
  /\ operations = << >>
  /\ Return("Other")
  /\ UNCHANGED <<spi, sysclk, freq, mfe, mtpr, addr, operations, op_i, byte_i, start, mcs, trace,
                 stored, rxCount>>
\* if operations.is_empty() { return Ok(()) }
ReturnEmpty ==
  /\ pc = "call"
  /\ operations = << >>
  /\ Return("Ok")
  /\ UNCHANGED <<spi, sysclk, freq, mfe, mtpr, addr, operations, op_i, byte_i, start, mcs, trace,
                 stored, rxCount>>

\* for op in operations { if bytes.is_empty() { return Err(ErrorKind::Other) } }
RejectZeroLength ==
  /\ pc = "call"
  /\ operations # << >>
  /\ \E k \in 1..Len(operations) : IsEmptyOp(operations[k])
  /\ Return("Other")
  /\ UNCHANGED <<spi, sysclk, freq, mfe, mtpr, addr, operations, op_i, byte_i, start, mcs, trace,
                 stored, rxCount>>

\* The first operation up to its first i2c_busy_wait!.
Begin ==
  /\ pc = "call"
  /\ operations # << >>
  /\ \A k \in 1..Len(operations) : ~IsEmptyOp(operations[k])
  /\ trace' = trace \o FirstSetup(operations, addr)
  /\ pc' = "pre_start"
  /\ phase' = "setup"
  /\ UNCHANGED <<spi, sysclk, freq, mfe, mtpr, addr, operations, op_i, byte_i, start, mcs, result,
                 stored, rxCount, retSite>>

\* Variant of WaitSetup: without the settling delay.
MutWaitSetupNoDelay ==
  /\ phase = "setup"
  /\ trace' = trace \o <<ClkWrite>>
  /\ phase' = "poll"
  /\ mcs' = << >>
  /\ UNCHANGED <<spi, sysclk, freq, mfe, mtpr, addr, operations, op_i, byte_i, start, pc,
                 result, stored, rxCount, retSite>>
\* The head of i2c_busy_wait!: the settling delay and the timeout count.
WaitSetup ==
  /\ phase = "setup"
  /\ trace' = trace \o <<Delay, ClkWrite>>
  /\ phase' = "poll"
  /\ mcs' = << >>
  /\ UNCHANGED <<spi, sysclk, freq, mfe, mtpr, addr, operations, op_i, byte_i, start, pc, result, stored, rxCount,
                 retSite>>

\* A status read with busy set: the snapshot is dropped and the inner loop
\* reads again.
PollBusy ==
  /\ phase \in {"poll", "poll2"}
  /\ \E s \in Snapshots : s.busy
  /\ UNCHANGED vars

\* A status read with busy clear that classifies an error: the macro returns
\* it from transaction (after the STOP of the NoAcknowledge branch).
PollError ==
  /\ phase \in {"poll", "poll2"}
  /\ \E s \in Snapshots :
       /\ ~s.busy
       /\ Classify(s) # "none"
       /\ mcs' = <<s>>
       /\ trace' = trace \o ErrorEvents(Classify(s))
       /\ Return(Classify(s))
  /\ UNCHANGED <<spi, sysclk, freq, mfe, mtpr, addr, operations, op_i, byte_i, start, stored, rxCount>>

\* A status read with busy clear and no error while the optional condition
\* does not hold: the macro enters, or stays in, its second loop.
PollCondition ==
  /\ phase \in {"poll", "poll2"}
  /\ \E s \in Snapshots :
       /\ ~s.busy
       /\ Classify(s) = "none"
       /\ ~CondMet(pc, s)
       /\ mcs' = <<s>>
  /\ phase' = "poll2"
  /\ UNCHANGED <<spi, sysclk, freq, mfe, mtpr, addr, operations, op_i, byte_i, start, pc, trace,
                 result, stored, rxCount, retSite>>

\* The wait at pc p returns Ok(()) on snapshot s.
WaitOk(p, s) ==
  /\ pc = p
  /\ phase \in {"poll", "poll2"}
  /\ Passes(p, s)
  /\ mcs' = <<s>>

\* The command of the first byte, written once the bus is free.
StartCommand ==
  /\ \E s \in Snapshots : WaitOk("pre_start", s)
  /\ trace' = Append(trace, McsWrite(FirstCommand(operations)))
  /\ pc' = IF SingleByte(operations) THEN "single_done" ELSE "first_done"
  /\ phase' = "setup"
  /\ UNCHANGED <<spi, sysclk, freq, mfe, mtpr, addr, operations, op_i, byte_i, start, result, stored, rxCount,
                 retSite>>

\* The special case of a single byte: after its wait the call returns.
SingleDone ==
  /\ \E s \in Snapshots : WaitOk("single_done", s)
  /\ IF operations[1].kind = "Write"
     THEN UNCHANGED <<operations, trace, stored, rxCount>>
     ELSE /\ operations' = StoreByte(operations, 0, 0, RxByte(rxCount))
          /\ trace' = Append(trace, MdrRead(RxByte(rxCount)))
          /\ stored' = Append(stored, <<0, 0>>)
          /\ rxCount' = rxCount + 1
  /\ Return("Ok")
  /\ UNCHANGED <<spi, sysclk, freq, mfe, mtpr, addr, op_i, byte_i, start>>

\* The top of the loop with locals <<i, j, st>> and trace tr: either the break
\* and "Final operation", or one iteration, each up to its i2c_busy_wait!.
\* operations[op_i] and bytes[byte_i] are bounds-checked.
EnterLoop(i, j, st, tr) ==
  /\ op_i' = i
  /\ byte_i' = j
  /\ start' = st
  /\ IF i >= Len(operations) \/ j >= Len(operations[i + 1].data)
     THEN /\ trace' = tr
          /\ Return("panic")
     ELSE IF LoopBreak(operations, i, j)
     THEN /\ trace' = tr \o FinalEvents(operations, addr, i, j, st)
          /\ pc' = IF operations[i + 1].kind = "Write" THEN "idle_wait" ELSE "final_read"
          /\ phase' = "setup"
          /\ UNCHANGED <<result, retSite>>
     ELSE /\ trace' = tr \o LoopEvents(operations, addr, i, j, st)
          /\ pc' = "loop_wait"
          /\ phase' = "setup"
          /\ UNCHANGED <<result, retSite>>

\* After the wait of a byte that is not the last: a Read stores it; then the
\* locals advance and the loop is entered.  chg is the op_change in scope:
\* the one computed before the loop for the first byte, the loop's otherwise.
ByteDone(p, chg) ==
  /\ \E s \in Snapshots : WaitOk(p, s)
  /\ LET op  == operations[op_i + 1]
         nxt == Advance(Len(op.data), op_i, byte_i, chg)
     IN IF op.kind = "Write"
        THEN /\ UNCHANGED <<operations, stored, rxCount>>
             /\ EnterLoop(nxt[1], nxt[2], nxt[3], trace)
        ELSE /\ operations' = StoreByte(operations, op_i, byte_i, RxByte(rxCount))
             /\ stored' = Append(stored, <<op_i, byte_i>>)
             /\ rxCount' = rxCount + 1
             /\ EnterLoop(nxt[1], nxt[2], nxt[3],
                          Append(trace, MdrRead(RxByte(rxCount))))
  /\ UNCHANGED <<spi, sysclk, freq, mfe, mtpr, addr>>

FirstDone == ByteDone("first_done", OpChangeFirst(operations))

LoopStep == ByteDone("loop_wait", LoopOpChange(operations, op_i))

\* "Final operation" of a Read: after its wait the byte is stored, then the
\* wait for the bus to be idle begins.
FinalRead ==
  /\ \E s \in Snapshots : WaitOk("final_read", s)
  /\ operations' = StoreByte(operations, op_i, byte_i, RxByte(rxCount))
  /\ trace' = Append(trace, MdrRead(RxByte(rxCount)))
  /\ stored' = Append(stored, <<op_i, byte_i>>)
  /\ rxCount' = rxCount + 1
  /\ pc' = "idle_wait"
  /\ phase' = "setup"
  /\ UNCHANGED <<spi, sysclk, freq, mfe, mtpr, addr, op_i, byte_i, start, result, retSite>>

\* i2c_busy_wait!(self.i2c, busbsy, bit_is_clear)?; Ok(())
Finish ==
  /\ \E s \in Snapshots : WaitOk("idle_wait", s)
  /\ Return("Ok")
  /\ UNCHANGED <<spi, sysclk, freq, mfe, mtpr, addr, operations, op_i, byte_i, start, trace, stored, rxCount>>

Next ==
  \/ ReturnEmpty
  \/ RejectZeroLength
  \/ Begin
  \/ WaitSetup
  \/ PollBusy
  \/ PollError
  \/ PollCondition
  \/ StartCommand
  \/ SingleDone
  \/ FirstDone
  \/ LoopStep
  \/ FinalRead
  \/ Finish

Spec == Init /\ [][Next]_vars

\* The call runs on: the processor keeps executing it, and each inner loop of
\* i2c_busy_wait! ends, i.e. a status read with busy clear eventually comes
\* (PollBusy leaves the state as it is, so a step that changes the state in a
\* wait is a read with busy clear).  Nothing is assumed of the other flags.
SpecFair == Init /\ [][Next]_vars /\ WF_vars(Next)

\* ------------------------------------------------------------ SpiBus
\* src/tm4c123x-hal/src/spi.rs

SpiOps == {"read", "write", "transfer", "transfer_in_place"}

\* The flags of the status register the four methods wait on.
SpiStatus == [tnf : BOOLEAN, rne : BOOLEAN]

Min(a, b) == IF a <= b THEN a ELSE b

\* The words of a call in order: tx is the word written to the data register,
\* dst the place in rd the word read is stored at, 0 when it is discarded.
\* read sends the dummy word and stores; write sends and discards; transfer
\* does the common part, then the rest of write, then the rest of read;
\* transfer_in_place sends words[k] and stores the answer over it.
WordPlan(op, wr, rd) ==
  IF op = "read" THEN [k \in 1..Len(rd) |-> [tx |-> DummyWord, dst |-> k]]
  ELSE IF op = "write" THEN [k \in 1..Len(wr) |-> [tx |-> wr[k], dst |-> 0]]
  ELSE IF op = "transfer"
  THEN LET min_len == Min(Len(rd), Len(wr))
       IN [k \in 1..min_len |-> [tx |-> wr[k], dst |-> k]]
          \o [k \in 1..(Len(wr) - min_len) |-> [tx |-> wr[min_len + k], dst |-> 0]]
          \o [k \in 1..(Len(rd) - min_len) |-> [tx |-> DummyWord, dst |-> min_len + k]]
  ELSE [k \in 1..Len(rd) |-> [tx |-> rd[k], dst |-> k]]

\* busy_wait!(spi, flag, bit_is_clear) leaves its loop on a status value s
\* with sr.flag().bit_is_clear().
BusyWaitOver(flag, s) == ~s[flag]

SpiSlice(n, first) == [j \in 1..n |-> (first + j - 1) % 256]
SpiBlank(n) == [j \in 1..n |-> BufInit]

\* The calls: every method with slices of up to MaxSpiWords words.
SpiCalls ==
  {[op |-> "read", wr |-> << >>, rd |-> SpiBlank(m)] : m \in 0..MaxSpiWords}
  \cup {[op |-> "write", wr |-> SpiSlice(n, TxBase), rd |-> << >>] : n \in 0..MaxSpiWords}
  \cup {[op |-> "transfer", wr |-> SpiSlice(n, TxBase), rd |-> SpiBlank(m)] :
          n \in 0..MaxSpiWords, m \in 0..MaxSpiWords}
  \cup {[op |-> "transfer_in_place", wr |-> << >>, rd |-> SpiSlice(m, TxBase)] :
          m \in 0..MaxSpiWords}

\* A call of one of the four methods on a configured bus; the I2C master is
\* idle.
InitSpi ==
  /\ \E c \in SpiCalls :
       spi = [op |-> c.op, wr |-> c.wr, rd |-> c.rd, k |-> 0, at |-> "call",
              sr |-> << >>, seen |-> FALSE, log |-> << >>]
  /\ sysclk = 16000000
  /\ freq = 100000
  /\ mfe = TRUE
  /\ mtpr = Tpr(sysclk, freq)
  /\ addr \in {CHOOSE a \in Addrs : TRUE}
  /\ operations = << >>
  /\ op_i = 0
  /\ byte_i = 0
  /\ start = TRUE
  /\ pc = "call"
  /\ phase = "none"
  /\ mcs = << >>
  /\ trace = << >>
  /\ result = "none"
  /\ stored = << >>
  /\ rxCount = 0
  /\ retSite = << >>

SpiPlan == WordPlan(spi.op, spi.wr, spi.rd)

\* The entry of the loops: nothing to do for empty slices, Ok(()).
SpiBegin ==
  /\ spi.at = "call"
  /\ spi' = [spi EXCEPT !.at = IF SpiPlan = << >> THEN "done" ELSE "tnf"]
  /\ UNCHANGED i2cVars

\* A status read that keeps busy_wait! in its loop.
SpiPoll ==
  /\ spi.at \in {"tnf", "rne"}
  /\ \E s \in SpiStatus :
       /\ ~BusyWaitOver(spi.at, s)
       /\ spi' = [spi EXCEPT !.sr = <<s>>, !.seen = TRUE]
  /\ UNCHANGED i2cVars

\* busy_wait!(self.spi, tnf, bit_is_clear) ends and the word is written to dr.
SpiSend ==
  /\ spi.at = "tnf"
  /\ \E s \in SpiStatus :
       /\ BusyWaitOver("tnf", s)
       /\ spi' = [spi EXCEPT !.sr = <<s>>,
                             !.seen = FALSE,
                             !.log = Append(@, [reg |-> "dr_w", val |-> SpiPlan[spi.k + 1].tx]),
                             !.at = "rne"]
  /\ UNCHANGED i2cVars

\* busy_wait!(self.spi, rne, bit_is_clear) ends and dr is read; the word is
\* stored or discarded and the loop goes to the next word.
SpiReceive ==
  /\ spi.at = "rne"
  /\ \E s \in SpiStatus :
       /\ BusyWaitOver("rne", s)
       /\ LET w == SpiPlan[spi.k + 1]
              v == RxByte(spi.k)
          IN spi' = [spi EXCEPT !.sr = <<s>>,
                                !.seen = FALSE,
                                !.log = Append(@, [reg |-> "dr_r", val |-> v]),
                                !.rd = IF w.dst = 0 THEN @ ELSE [@ EXCEPT ![w.dst] = v],
                                !.k = @ + 1,
                                !.at = IF spi.k + 1 = Len(SpiPlan) THEN "done" ELSE "tnf"]
  /\ UNCHANGED i2cVars

NextSpi ==
  \/ SpiBegin
  \/ SpiPoll
  \/ SpiSend
  \/ SpiReceive

SpecSpi == InitSpi /\ [][NextSpi]_vars

\* ------------------------------------------------- reading the trace

IsCmd(e) == e.reg = "mcs"
IsRun(e) == e.reg = "mcs" /\ "run" \in e.bits
HasStart(e) == e.reg = "mcs" /\ "start" \in e.bits
HasStop(e) == e.reg = "mcs" /\ "stop" \in e.bits
IsMsa(e) == e.reg = "msa"

\* The writes to the command register, in order.
Cmds == SelectSeq(trace, IsCmd)
\* The byte commands (RUN set), in order, and their places in the trace.
RunCmds == SelectSeq(trace, IsRun)
RunIdx == SelectSeq([k \in 1..Len(trace) |-> k], LAMBDA k : IsRun(trace[k]))
StopCount == Len(SelectSeq(trace, HasStop))

RECURSIVE PosFrom(_, _)
PosFrom(ops, i) ==
  IF i > Len(ops) THEN << >>
  ELSE [j \in 1..Len(ops[i].data) |-> <<i - 1, j - 1>>] \o PosFrom(ops, i + 1)

\* The bytes of the call in operation order, each as <<op index, byte index>>.
Positions == PosFrom(operations, 1)
TotalBytes == Len(Positions)
KindAt(p) == operations[p[1] + 1].kind
IsReadPos(p) == KindAt(p) = "Read"
ReadPositions == SelectSeq(Positions, IsReadPos)

\* The byte at p is the first of an operation that opens a run of one direction.
OpensRun(p) ==
  p[2] = 0 /\ (p[1] = 0 \/ operations[p[1] + 1].kind # operations[p[1]].kind)
\* The byte at p is the first of an operation that follows a direction change.
TurnsAround(p) ==
  p[2] = 0 /\ p[1] > 0 /\ operations[p[1] + 1].kind # operations[p[1]].kind
NumRuns ==
  Cardinality({i \in 1..Len(operations) :
                 i = 1 \/ operations[i].kind # operations[i - 1].kind})

\* The command of the call's last byte has been written.
FinalIssued == TotalBytes > 0 /\ Len(RunCmds) = TotalBytes

Kind(k) == operations[k].kind
Succeeded == result = "Ok" /\ operations # << >>
Failed == pc = "done" /\ result \notin {"Ok", "panic"}

\* ---------------------------------------------------------------- claims

\* C1: on success the commands with START are exactly the first command of
\* each maximal run of same-direction operations: one command per byte, START
\* on the first byte of the call and on the first byte of every operation
\* after a direction change and on no other command; the address register is
\* written once per START, so an operation of the same direction is continued
\* without START and without a new address.
C1_StartOpensEachRun ==
  Succeeded =>
    /\ Len(Cmds) = TotalBytes
    /\ \A k \in 1..Len(Cmds) :
         k <= TotalBytes => (HasStart(Cmds[k]) <=> OpensRun(Positions[k]))
    /\ Len(SelectSeq(trace, HasStart)) = NumRuns
    /\ Len(SelectSeq(trace, IsMsa)) = NumRuns

C1_Witness ==
  /\ Succeeded
  /\ Len(operations) = 3
  /\ Kind(1) = "Write" /\ Kind(2) = "Write" /\ Kind(3) = "Read"

\* C2 as stated: every call that writes a command writes exactly one command
\* with STOP, on success and on every error abort.
C2_ExactlyOneStop ==
  (pc = "done" /\ Cmds # << >>) => StopCount = 1

\* C2 as amended: the commands with STOP of a call are the command of the final
\* byte, if the call got that far, and the STOP-only command of a
\* NoAcknowledge abort: exactly one on success, none on a Timeout or
\* ArbitrationLoss abort before the final byte, two on a NoAcknowledge
\* detected after the final byte's command.
C2_StopPerFinalByteAndNack ==
  (pc = "done" /\ result # "panic") =>
    /\ StopCount = (IF FinalIssued THEN 1 ELSE 0) + (IF IsNoAck(result) THEN 1 ELSE 0)
    /\ Succeeded => (FinalIssued /\ HasStop(Cmds[Len(Cmds)]))

C2_Witness ==
  /\ pc = "done"
  /\ IsNoAck(result)
  /\ FinalIssued
  /\ StopCount = 2

\* C3 as stated: every read-byte command but the one of the call's last byte
\* has ACK set; the one of the last byte has ACK clear and STOP set.
C3_AckOnAllButFinal ==
  \A k \in 1..Len(RunCmds) :
    (k <= TotalBytes /\ IsReadPos(Positions[k])) =>
      IF k = TotalBytes
      THEN "ack" \notin RunCmds[k].bits /\ "stop" \in RunCmds[k].bits
      ELSE "ack" \in RunCmds[k].bits

\* The byte at p is the last of a Read that ends the call or is followed by a
\* Write.
EndsReadRun(p) ==
  /\ IsReadPos(p)
  /\ p[2] = Len(operations[p[1] + 1].data) - 1
  /\ (p[1] = Len(operations) - 1 \/ operations[p[1] + 2].kind = "Write")

\* C3 as amended: a read-byte command has ACK clear exactly when its byte is
\* the last byte of a Read that is followed by a Write or that ends the call;
\* every other read-byte command has ACK set; STOP is set on the command of
\* the call's last byte only.
C3_AckExceptBeforeTurnOrEnd ==
  \A k \in 1..Len(RunCmds) :
    (k <= TotalBytes /\ IsReadPos(Positions[k])) =>
      /\ ("ack" \in RunCmds[k].bits) <=> ~EndsReadRun(Positions[k])
      /\ ("stop" \in RunCmds[k].bits) <=> (k = TotalBytes)

C3_Witness ==
  /\ Succeeded
  /\ Len(operations) = 3
  /\ Kind(1) = "Read" /\ Len(operations[1].data) = 2
  /\ Kind(2) = "Write" /\ Kind(3) = "Read"

\* What the wait that read the snapshot in mcs made of it.
Outcome == IF result \in {"none", "Ok"} THEN "none" ELSE result

\* The priority function of the specification; Timeout is returned as
\* ErrorKind::Other.
RefPriority(s) ==
  CASE s.clkto -> "Other"
    [] ~s.clkto /\ s.arblst -> "ArbitrationLoss"
    [] ~s.clkto /\ ~s.arblst /\ s.error /\ s.adrack -> "NoAckAddress"
    [] ~s.clkto /\ ~s.arblst /\ ~(s.error /\ s.adrack) /\ s.error /\ s.datack -> "NoAckData"
    [] OTHER -> "none"

\* C4 as stated: the classification of every snapshot read with busy clear is
\* the priority function clock_timeout, arbitration_lost, error and
\* address_nack, error and data_nack, none.
C4_ClassifyIsPriority ==
  mcs # << >> => Outcome = RefPriority(mcs[1])

\* The priority function with the error flag in front of all three causes.
RefErrorGated(s) ==
  CASE s.clkto -> "Other"
    [] ~s.clkto /\ s.error /\ s.arblst -> "ArbitrationLoss"
    [] ~s.clkto /\ s.error /\ ~s.arblst /\ s.adrack -> "NoAckAddress"
    [] ~s.clkto /\ s.error /\ ~s.arblst /\ ~s.adrack -> "NoAckData"
    [] OTHER -> "none"

\* C4 as amended: clock_timeout gives Timeout; otherwise error and
\* arbitration_lost give ArbitrationLoss; otherwise error and address_nack give
\* NoAcknowledge(Address); otherwise error alone gives NoAcknowledge(Data),
\* whatever data_nack is; otherwise no error, whatever arbitration_lost,
\* address_nack and data_nack are.
C4_ClassifyIsErrorGated ==
  mcs # << >> => (~mcs[1].busy /\ Outcome = RefErrorGated(mcs[1]))

C4_Witness ==
  /\ pc = "done"
  /\ mcs # << >>
  /\ mcs[1].error /\ ~mcs[1].clkto /\ ~mcs[1].arblst
  /\ ~mcs[1].adrack /\ ~mcs[1].datack
  /\ result = "NoAckData"

\* The register accesses of a step.
NewEvents == SubSeq(trace', Len(trace) + 1, Len(trace'))
\* A step that binds a new snapshot to mcs.
ReadsSnapshot == mcs' # << >> /\ mcs' # mcs
NoDataPhase(evs) ==
  \A k \in 1..Len(evs) :
    /\ evs[k].reg # "mdr_w"
    /\ ~(evs[k].reg = "mcs" /\ evs[k].bits \cap {"start", "run"} # {})

\* C5 as stated: a snapshot with arbitration_lost set and clock_timeout clear
\* makes the call return ArbitrationLoss at that wait, with no command with RUN
\* or START and no data-register write after it.
C5_ArbitrationLossAborts ==
  [][(ReadsSnapshot /\ mcs'[1].arblst /\ ~mcs'[1].clkto) =>
       (result' = "ArbitrationLoss" /\ pc' = "done" /\ NoDataPhase(NewEvents))]_vars

\* C5 as amended: a snapshot with error and arbitration_lost set and
\* clock_timeout clear makes the call return ArbitrationLoss at that wait, and
\* no register is written after it.
C5_GatedArbitrationLossAborts ==
  [][(ReadsSnapshot /\ mcs'[1].error /\ mcs'[1].arblst /\ ~mcs'[1].clkto) =>
       (result' = "ArbitrationLoss" /\ pc' = "done" /\ trace' = trace)]_vars

C5_Witness ==
  /\ pc = "done"
  /\ result = "ArbitrationLoss"
  /\ retSite[1] = "loop_wait"
  /\ mcs[1].adrack

\* The first completed poll of the call: the first snapshot with busy clear of
\* the wait that precedes the first START.
FirstPoll == pc = "pre_start" /\ phase = "poll" /\ mcs' # << >>

\* C6 as stated: address_nack in the snapshot of the first completed poll makes
\* the call return NoAcknowledge(Address), with a STOP command before it.
C6_FirstPollAddressNack ==
  [][(FirstPoll /\ mcs'[1].adrack) =>
       (result' = "NoAckAddress" /\ \E k \in 1..Len(NewEvents) : HasStop(NewEvents[k]))]_vars

\* C6 as amended: error and address_nack set, with clock_timeout and
\* arbitration_lost clear, in the snapshot of the first completed poll make the
\* call return NoAcknowledge(Address), with a STOP command before it.
C6_FirstPollGatedAddressNack ==
  [][(FirstPoll /\ mcs'[1].error /\ mcs'[1].adrack /\ ~mcs'[1].clkto /\ ~mcs'[1].arblst) =>
       (result' = "NoAckAddress" /\ \E k \in 1..Len(NewEvents) : HasStop(NewEvents[k]))]_vars

C6_Witness ==
  /\ pc = "done"
  /\ result = "NoAckAddress"
  /\ retSite = <<"pre_start", "poll">>
  /\ HasStop(trace[Len(trace)])

\* C7: a return of NoAcknowledge(Address) or NoAcknowledge(Data), from any
\* wait, comes in the step that read the snapshot, and the one register access
\* after the snapshot is a command with STOP set and START and RUN clear.
C7_NackStopsLast ==
  [][(result = "none" /\ IsNoAck(result')) =>
       /\ ReadsSnapshot
       /\ Len(NewEvents) = 1
       /\ HasStop(NewEvents[1])
       /\ NewEvents[1].bits \cap {"start", "run"} = {}
       /\ Cmds' = Append(Cmds, NewEvents[1])]_vars

C7_Witness ==
  /\ pc = "done"
  /\ result = "NoAckData"
  /\ retSite[1] = "idle_wait"
  /\ Cmds[Len(Cmds)].bits = {"stop"}

\* C8 as stated: on success the last snapshot read has controller-busy and
\* bus-busy clear, on the general path and on the single-byte path.
C8_IdleOnSuccess ==
  Succeeded => (mcs # << >> /\ ~mcs[1].busy /\ ~mcs[1].busbsy)

\* C9 as stated: an error return of a call with a Read leaves some Read
\* position unstored.
C9_ErrorLeavesReadUnstored ==
  (Failed /\ ReadPositions # << >>) => stored # ReadPositions

\* The place among the bytes of the call of its last Read byte, 0 without one.
LastReadByte ==
  LET ks == {k \in 1..TotalBytes : IsReadPos(Positions[k])}
  IN IF ks = {} THEN 0 ELSE CHOOSE k \in ks : \A m \in ks : m <= k

\* C9 as amended: on success every Read position has been stored, once and in
\* operation order; an error returned by a wait up to the one that follows
\* the command of the last Read byte leaves some Read position unstored; an
\* error returned later (by the wait of a following Write byte or by the final
\* wait for the bus) leaves every Read buffer stored although the call fails.
C9_StoredOnSuccess ==
  /\ result = "Ok" => stored = ReadPositions
  /\ (Failed /\ ReadPositions # << >>) =>
       (stored # ReadPositions <=>
          (Len(RunCmds) <= LastReadByte /\ retSite[1] # "idle_wait"))

C9_Witness ==
  /\ Failed
  /\ Len(operations) = 2
  /\ Kind(1) = "Read" /\ Kind(2) = "Write"
  /\ stored = ReadPositions

IsMdrWrite(e) == e.reg = "mdr_w"
IsMdrRead(e) == e.reg = "mdr_r"
AllKind(kd) == \A k \in 1..Len(operations) : operations[k].kind = kd

RECURSIVE ConcatFrom(_, _)
\* The buffers of ops[i], ops[i + 1], ... one after the other.
ConcatFrom(ops, i) ==
  IF i > Len(ops) THEN << >> ELSE ops[i].data \o ConcatFrom(ops, i + 1)

\* The values written to the data register, in order.
DataWritten ==
  LET w == SelectSeq(trace, IsMdrWrite) IN [k \in 1..Len(w) |-> w[k].val]

\* C11: on success of a call whose operations are all Writes, the values
\* written to the data register are the write buffers one after the other in
\* operation order, one command has START and one command has STOP.
C11_AllWriteData ==
  (Succeeded /\ AllKind("Write")) =>
    /\ DataWritten = ConcatFrom(operations, 1)
    /\ Len(SelectSeq(trace, HasStart)) = 1
    /\ StopCount = 1

C11_Witness ==
  /\ Succeeded
  /\ AllKind("Write")
  /\ Len(operations) = 3
  /\ TotalBytes = 4

\* A command with RUN and neither START nor STOP.
IsRunOnly(e) == IsRun(e) /\ "start" \notin e.bits /\ "stop" \notin e.bits
RunOnlyCount == Len(SelectSeq(trace, IsRunOnly))

\* C12 as stated: on success of an all-Write call of total_bytes bytes, the
\* commands with RUN and neither START nor STOP number total_bytes - 1.
C12_RunOnlyIsTotalMinusOne ==
  (Succeeded /\ AllKind("Write")) => RunOnlyCount = TotalBytes - 1

\* C12 as amended: they number total_bytes - 2 when total_bytes is at least 2
\* (the first byte's command has START, the last byte's has STOP), and 0 when
\* total_bytes is 1 (the one command has START and STOP).
C12_RunOnlyIsTotalMinusTwo ==
  (Succeeded /\ AllKind("Write")) =>
    RunOnlyCount = (IF TotalBytes >= 2 THEN TotalBytes - 2 ELSE 0)

C12_Witness ==
  /\ Succeeded
  /\ AllKind("Write")
  /\ TotalBytes = 4
  /\ RunOnlyCount = 2

\* C13: on success of a call whose operations are all Reads, the address
\* register is written once, with the direction bit set (read), one command
\* has START, every command but the last has ACK set and the last has ACK clear.
C13_AllReadAck ==
  (Succeeded /\ AllKind("Read")) =>
    /\ SelectSeq(trace, IsMsa) = <<Ev("msa", 2 * addr + 1, {})>>
    /\ Len(SelectSeq(trace, HasStart)) = 1
    /\ HasStart(Cmds[1])
    /\ Len(Cmds) = TotalBytes
    /\ \A k \in 1..Len(Cmds) : ("ack" \in Cmds[k].bits) <=> (k < Len(Cmds))

C13_Witness ==
  /\ Succeeded
  /\ AllKind("Read")
  /\ Len(operations) = 2
  /\ TotalBytes = 4

\* The places in the trace of the events that satisfy a test.
Places(Test(_)) == {k \in 1..Len(trace) : Test(trace[k])}

\* C14: a successful call of one operation of one byte writes one command,
\* with START, RUN and STOP set and ACK clear; for a Write the one write of
\* the data register carries the byte and comes before the command; for a
\* Read the one read of the data register comes after the command and the
\* setup of the wait that follows it, the wait has returned Ok, and the value
\* read is the byte in the buffer.
C14_SingleByteOneCommand ==
  (Succeeded /\ SingleByte(operations)) =>
    /\ Len(Cmds) = 1
    /\ Cmds[1].bits = {"start", "run", "stop"}
    /\ retSite[1] = "single_done"
    /\ LET c == CHOOSE k \in Places(IsCmd) : TRUE
       IN IF Kind(1) = "Write"
          THEN /\ Places(IsMdrRead) = {}
               /\ \E w \in 1..(c - 1) :
                    /\ Places(IsMdrWrite) = {w}
                    /\ trace[w].val = operations[1].data[1]
          ELSE /\ Places(IsMdrWrite) = {}
               /\ Places(IsMdrRead) = {Len(trace)}
               /\ Len(trace) = c + 3
               /\ trace[c + 1] = Delay
               /\ trace[c + 2] = ClkWrite
               /\ trace[c + 3].val = operations[1].data[1]
               /\ stored = << <<0, 0>> >>

C14_Witness ==
  /\ Succeeded
  /\ SingleByte(operations)
  /\ Kind(1) = "Read"
  /\ operations[1].data[1] = RxByte(0)

\* C15: a call with no operation returns Ok and accesses no register: nothing
\* is written or read, no status snapshot is taken and no wait is entered.
C15_EmptyTouchesNothing ==
  operations = << >> =>
    /\ pc \in {"call", "done"}
    /\ pc = "done" => result = "Ok"
    /\ trace = << >>
    /\ mcs = << >>
    /\ phase = "none"
    /\ rxCount = 0

C15_Witness ==
  /\ operations = << >>
  /\ pc = "done"
  /\ result = "Ok"

HasEmptyOp == \E k \in 1..Len(operations) : Len(operations[k].data) = 0

\* C16: a call with at least one operation, one of them of length zero at any
\* place, returns an error and accesses no register.
C16_ZeroLengthRejected ==
  (operations # << >> /\ HasEmptyOp) =>
    /\ pc \in {"call", "done"}
    /\ pc = "done" => result \in {"Other", "ArbitrationLoss", "NoAckAddress", "NoAckData"}
    /\ trace = << >>
    /\ mcs = << >>
    /\ phase = "none"
    /\ rxCount = 0

C16_Witness ==
  /\ pc = "done"
  /\ result = "Other"
  /\ Len(operations) = 3
  /\ Len(operations[1].data) = 2
  /\ Len(operations[2].data) = 2
  /\ Len(operations[3].data) = 0

InWait == phase \in {"setup", "poll", "poll2"}

\* Every command with RUN in the trace is followed by the head of a wait: it
\* is the last event while the wait is about to begin, or the next two events
\* are the settling delay and the write of the timeout count.
RunThenWait ==
  \A k \in Places(IsRun) :
    IF k = Len(trace) THEN phase = "setup"
    ELSE /\ k + 2 <= Len(trace)
         /\ trace[k + 1] = Delay
         /\ trace[k + 2] = ClkWrite

\* The commands with RUN are for the bytes of the call in order, one each: the
\* n-th is the command of the n-th byte, the byte the indices point at.
OneCommandPerByte ==
  /\ Len(RunCmds) <= TotalBytes
  /\ pc = "pre_start" => RunCmds = << >>
  /\ pc \in {"single_done", "first_done", "loop_wait", "final_read", "idle_wait"} =>
       /\ Len(RunCmds) >= 1
       /\ Positions[Len(RunCmds)] = <<op_i, byte_i>>

\* A step of a wait that reads a snapshot with busy clear that classifies an
\* error.
ClassifiesError ==
  /\ phase \in {"poll", "poll2"}
  /\ mcs' # << >>
  /\ Classify(mcs'[1]) # "none"

\* C17: every command with RUN is followed by a wait, and nothing for a later
\* byte (a command or an access to the data register) is done before that
\* wait has read a snapshot with busy clear and no error; a wait that
\* classifies an error ends the call with exactly that error and writes no
\* command with START or RUN; after the return nothing is written; no byte
\* has two commands.
C17_WaitAfterRunNoRetry ==
  [][/\ RunThenWait'
     /\ OneCommandPerByte'
     /\ (phase \in {"poll", "poll2"} /\ NewEvents # << >>) =>
          /\ mcs' # << >>
          /\ ~mcs'[1].busy
          /\ (~NoDataPhase(NewEvents) \/ \E k \in 1..Len(NewEvents) : IsMdrRead(NewEvents[k]))
               => Classify(mcs'[1]) = "none"
     /\ (phase = "setup") => (NewEvents = <<Delay, ClkWrite>> /\ phase' = "poll")
     /\ ClassifiesError =>
          /\ result' = Classify(mcs'[1])
          /\ pc' = "done"
          /\ NoDataPhase(NewEvents)
     /\ pc # "done"]_vars

C17_Witness ==
  /\ result = "NoAckData"
  /\ retSite = <<"loop_wait", "poll">>
  /\ Len(RunCmds) = 2
  /\ TotalBytes = 4
  /\ trace[Len(trace)] = McsWrite({"stop"})

\* C19: with at least one operation and none of length zero, the call never
\* panics on an index: at every point of the call the operation index is below
\* the number of operations and the byte index below the length of the
\* operation it points in, and where the loop looks at the next operation
\* (it does so when the current one is not the last) that one exists.
C19_IndicesInBounds ==
  (operations # << >> /\ ~HasEmptyOp) =>
    /\ result # "panic"
    /\ op_i < Len(operations)
    /\ byte_i < Len(operations[op_i + 1].data)
    /\ (pc = "loop_wait" /\ op_i # Len(operations) - 1) => op_i + 2 <= Len(operations)

C19_Witness ==
  /\ Succeeded
  /\ Len(operations) = 3
  /\ TotalBytes = 4
  /\ op_i = 2
  /\ byte_i = Len(operations[3].data) - 1

\* C18 as stated: if busy always eventually clears, every call eventually
\* returns, whatever the other status flags do.
C18_EventuallyReturns == <>(pc = "done")

\* The quotient sysclk / (2 * 10 * freq) rounded to the nearest integer,
\* less 1.
RoundedDivisor(c, f) == ((2 * c + 2 * 10 * f) \div (2 * (2 * 10 * f))) - 1

Configured == pc = "call" /\ mfe

\* C20 as stated: for a target frequency above 0 and at most sysclk / 20, the
\* timing divisor register holds round(sysclk / (2 * 10 * freq)) - 1 after
\* configuration, rounded to the nearest and stored without loss.
C20_DivisorIsRounded ==
  (Configured /\ freq > 0 /\ 20 * freq <= sysclk) =>
    mtpr = RoundedDivisor(sysclk, freq)

IsPrefix(a, b) == Len(a) <= Len(b) /\ a = SubSeq(b, 1, Len(a))

RECURSIVE WritesFrom(_, _)
\* The buffers of the Writes among ops[i], ops[i + 1], ... one after the other.
WritesFrom(ops, i) ==
  IF i > Len(ops) THEN << >>
  ELSE (IF ops[i].kind = "Write" THEN ops[i].data ELSE << >>) \o WritesFrom(ops, i + 1)

\* The content of the buffer at position p = <<op index, byte index>>.
BufAt(p) == operations[p[1] + 1].data[p[2] + 1]

\* The places in the trace of the reads of the data register, in order.
MdrReadIdx == SelectSeq([k \in 1..Len(trace) |-> k], LAMBDA k : IsMdrRead(trace[k]))

\* The number of commands with RUN among the first m events of the trace.
RunsUpTo(m) == Cardinality({k \in 1..m : IsRun(trace[k])})

\* The data written so far and the positions stored so far are prefixes of
\* the Write bytes and of the Read positions of the call; each stored position
\* holds the value of its own read of the data register, which comes right
\* after the wait that follows the command of that byte; the Read positions
\* not stored hold what they held before the call.
InOperationOrder ==
  /\ IsPrefix(DataWritten, WritesFrom(operations, 1))
  /\ IsPrefix(stored, ReadPositions)
  /\ Len(MdrReadIdx) = Len(stored)
  /\ \A k \in 1..Len(stored) :
       LET m == MdrReadIdx[k]
       IN /\ m >= 4
          /\ IsRun(trace[m - 3])
          /\ trace[m - 2] = Delay
          /\ trace[m - 1] = ClkWrite
          /\ Positions[RunsUpTo(m)] = stored[k]
          /\ BufAt(stored[k]) = trace[m].val
  /\ \A k \in (Len(stored) + 1)..Len(ReadPositions) : BufAt(ReadPositions[k]) = BufInit

\* C21: in every state of a call, returned or not, the writes of the data
\* register form a prefix of the Write buffers in operation order, the Read
\* positions stored form a prefix of the Read positions in operation order,
\* each stored once from a read of the data register taken after the wait of
\* its own byte has read a snapshot with busy clear that classifies no error,
\* and the Read positions not reached are unchanged.
C21_PrefixesInOperationOrder ==
  [][/\ InOperationOrder'
     /\ (\E k \in 1..Len(NewEvents) : IsMdrRead(NewEvents[k])) =>
          /\ phase \in {"poll", "poll2"}
          /\ mcs' # << >>
          /\ ~mcs'[1].busy
          /\ Classify(mcs'[1]) = "none"
          /\ Len(stored') = Len(stored) + 1]_vars

C21_Witness ==
  /\ Failed
  /\ Len(stored) = 1
  /\ Len(ReadPositions) = 3
  /\ Len(DataWritten) = 1
  /\ Kind(1) = "Write"

\* The status register is read in the polling phases of a wait only.
Polling == phase \in {"poll", "poll2"}

\* The last two events are the head of a wait: the settling delay, then the
\* write of the timeout count.  Every command written so far comes before.
WaitHeadDone ==
  /\ Len(trace) >= 2
  /\ trace[Len(trace) - 1] = Delay
  /\ trace[Len(trace)] = ClkWrite

\* C22: when the status register is read after a write of the command
\* register, the settling delay and the write of the timeout count have been
\* done since that write, in this order; no status read comes between a
\* command and the settling delay that follows it.
C22_DelayBeforeStatusRead ==
  [][/\ Polling' => WaitHeadDone'
     /\ ReadsSnapshot => (Polling /\ WaitHeadDone)
     /\ (trace # << >> /\ IsCmd(trace[Len(trace)]) /\ pc # "done") =>
          /\ ~Polling
          /\ mcs' = mcs \/ mcs' = << >>
          /\ NewEvents = <<Delay, ClkWrite>>]_vars

C22_Witness ==
  /\ pc = "idle_wait"
  /\ phase = "poll2"
  /\ mcs # << >>
  /\ Len(Cmds) = 4
  /\ WaitHeadDone

\* A snapshot with the controller idle, the bus free and no error classified.
IdleAndFree(s) == ~s.busy /\ ~s.busbsy /\ Classify(s) = "none"

HasStartOrRun(e) == e.reg = "mcs" /\ e.bits \cap {"start", "run"} # {}

\* C23: the first command of a call, the one with the opening START, is
\* written by a step of the wait before it that reads a snapshot with busy
\* clear, bus-busy clear and no error classified; when that wait classifies an
\* error the call returns it, and no command with START or RUN is written in
\* the call.
C23_FirstCommandAfterFreeBus ==
  [][/\ (Cmds = << >> /\ Cmds' # << >> /\ HasStartOrRun(Cmds'[1])) =>
          /\ pc = "pre_start"
          /\ Polling
          /\ HasStart(Cmds'[1])
          /\ mcs' # << >>
          /\ IdleAndFree(mcs'[1])
     /\ (pc = "pre_start" /\ ClassifiesError) =>
          /\ result' = Classify(mcs'[1])
          /\ pc' = "done"
     /\ (pc' = "done" /\ retSite' # << >> /\ retSite'[1] = "pre_start") =>
          \A k \in 1..Len(trace') : ~HasStartOrRun(trace'[k])]_vars

C23_Witness ==
  /\ pc = "first_done"
  /\ phase = "setup"
  /\ Len(Cmds) = 1
  /\ mcs # << >>
  /\ IdleAndFree(mcs[1])
  /\ mcs[1].datack

\* C24: on success the commands written are as many as the bytes of the call,
\* the k-th being the command of the k-th byte in operation order; every Read
\* position is stored, from the read of the data register that follows the
\* wait of its command, and every Write byte is loaded into the data register
\* after the command of the byte before it and before its own command.
C24_OneCommandPerByteOnSuccess ==
  Succeeded =>
    /\ Len(Cmds) = TotalBytes
    /\ RunCmds = Cmds
    /\ stored = ReadPositions
    /\ DataWritten = WritesFrom(operations, 1)
    /\ \A k \in 1..TotalBytes :
         LET c == RunIdx[k]
             b == IF k = 1 THEN 0 ELSE RunIdx[k - 1]
             p == Positions[k]
             loads == {m \in (b + 1)..(c - 1) : IsMdrWrite(trace[m])}
         IN IF KindAt(p) = "Write"
            THEN \E m \in loads : loads = {m} /\ trace[m] = MdrWrite(BufAt(p))
            ELSE /\ loads = {}
                 /\ c + 3 <= Len(trace)
                 /\ trace[c + 3] = MdrRead(BufAt(p))

C24_Witness ==
  /\ Succeeded
  /\ Len(operations) = 3
  /\ Kind(1) = "Write" /\ Kind(2) = "Read" /\ Kind(3) = "Write"
  /\ Len(Cmds) = 4

\* The values a wait returns when its snapshot has clock_timeout set.
TimeoutOutcomes == {Classify(s) : s \in {x \in Snapshots : ~x.busy /\ x.clkto}}

\* The call has returned from the scan for operations of length zero.
Rejected == pc = "done" /\ operations # << >> /\ HasEmptyOp /\ retSite = <<"call", "none">>

\* C25 as stated: the value returned for a rejected operation of length zero
\* is never a value returned for a clock timeout.
C25_RejectionIsNotTimeout == Rejected => result \notin TimeoutOutcomes

\* The step accesses the SPI data register: a write, a read.
SpiWrites == Len(spi'.log) > Len(spi.log) /\ spi'.log[Len(spi'.log)].reg = "dr_w"
SpiReads == Len(spi'.log) > Len(spi.log) /\ spi'.log[Len(spi'.log)].reg = "dr_r"

\* C26 as stated: a word is written to the data register only after a status
\* read of the wait before it showed TNF set, and read from it only after a
\* status read of the wait before it showed RNE set.
C26_FifoReadyBeforeAccess ==
  [][/\ SpiWrites => (spi.seen \/ spi'.sr[1].tnf)
     /\ SpiReads => (spi.seen \/ spi'.sr[1].rne)]_vars

====
